---- MODULE Spec2Model ----
(***************************************************************************)
(* Model of the tray-state store and the refresh plumbing of               *)
(* src/main.py (Printer Supply & Tray Monitor).                            *)
(*                                                                         *)
(* Python dicts are insertion ordered, and the order decides the order of  *)
(* the events one reconcile call appends, so a dict of tray items is a     *)
(* sequence of items with pairwise distinct "key" fields.  The persisted   *)
(* document (self.data) is a function from field names to values, read     *)
(* with Get (dict.get) and written with Put (item assignment).             *)
(*                                                                         *)
(* Timestamps are the strings of now_iso(); they are modelled by the       *)
(* reading of a clock, 1..MaxTime, and the empty string by NoTime.         *)
(* The descriptive fields of a tray item (description, status_message,     *)
(* printer_text, device_last_update) are all copied in the same way; the   *)
(* model carries status_message for them.                                  *)
(***************************************************************************)
EXTENDS Integers, Sequences, FiniteSets, TLC

\* Bounds of the model.
MaxTime == 2
MaxHistory == 3
\* MAX_EVENTS of src/main.py:41 is 20000; the model scales the cap down.
MAX_EVENTS == 2

\* Characters after the optional "tray" of a tray token.
MaxBody == 3

\* Words of the longest row tail.
MaxWords == 12

\* Lines of the longest page.
MaxLines == 3

\* Threads the model has room for.
MaxWorkers == 2
\* DEFAULT_INTERVAL_MINUTES of src/main.py:40 is 5; the model counts the
\* interval in steps of the clock.
DEFAULT_INTERVAL_MINUTES == 1

\* The empty string "" that last_scan_at starts with.
NoTime == 0

KEYS == {"10001::Tray 1", "10002::Tray 2"}

\* The status text the page shows for an empty tray. It changes from one
\* reading of the clock to the next, so that an entry refreshed by a later
\* scan differs from the one stored at detection.
StatusAt(t) == IF t % 2 = 1 THEN "Paper out" ELSE "Tray empty"

\* The printer_id and tray label a key "{printer_id}::{tray}" is built from.
printer_id(key) == IF key = "10001::Tray 1" THEN "10001" ELSE "10002"
tray(key) == IF key = "10001::Tray 1" THEN "Tray 1" ELSE "Tray 2"

VARIABLES
    data,       \* StateStore.data, the in-memory document
    fs,         \* the files: state_path and tmp_path
    history,    \* every event ever appended, untrimmed (history variable)
    ret,        \* the last StateStore call: its arguments and what it returned
    clock,      \* now_iso()
    boot,       \* StateStore.__init__: pending, ok or raised, and the file it read
    saving,     \* where a call stands in save(), and what it will return
    last_written,   \* the last version fully written to state_path (history variable)
    refresh_in_progress,        \* PrinterMonitorApp.refresh_in_progress
    next_auto_refresh_epoch,    \* PrinterMonitorApp.next_auto_refresh_epoch
    url_var,                    \* the monitor URL entry
    auto_refresh_var,           \* the auto-refresh checkbox
    refresh_interval_var,       \* the "Every (min)" entry
    thresholds_valid,           \* whether the threshold entries hold integers
    open_empties,               \* PrinterMonitorApp.open_empties, the displayed trays
    workers,                    \* the _refresh_worker threads
    callbacks,                  \* root.after(0, ...) callbacks not yet run
    req,                        \* what the last scan request did, and how its scan ended
    state_lock,                 \* PrinterMonitorApp.state_lock: free, or who holds it
    foreground,                 \* where the foreground thread stands in a handler
    evaluated                   \* a call of one of the parsing functions: its input and its result

storevars == <<data, fs, history, ret, boot, saving, last_written>>
appvars == <<refresh_in_progress, next_auto_refresh_epoch, url_var,
             auto_refresh_var, refresh_interval_var, thresholds_valid, open_empties, workers,
             callbacks, req, state_lock, foreground>>
lockvars == <<state_lock, foreground>>
vars == <<storevars, clock, appvars, evaluated>>

----------------------------------------------------------------------------
\* dict helpers

Get(d, k, default) == IF k \in DOMAIN d THEN d[k] ELSE default
Put(d, k, v) == [f \in DOMAIN d \cup {k} |-> IF f = k THEN v ELSE d[f]]

\* Position of key in an ordered dict of items, 0 when absent.
IndexOf(items, key) ==
    IF \E i \in 1..Len(items) : items[i].key = key
    THEN CHOOSE i \in 1..Len(items) : items[i].key = key
    ELSE 0

KeysOf(items) == {items[i].key : i \in 1..Len(items)}

\* dict.pop(key): the items without the one at position i.
RemoveAll(items, i) == <<>>
RemoveNone(items, p) == items
RemoveFirst(items, p) == Tail(items)
RemoveAt(items, i) ==
    [j \in 1..(Len(items) - 1) |-> IF j < i THEN items[j] ELSE items[j + 1]]

\* open_after[key] = item
DictSet(items, item) ==
    IF IndexOf(items, item.key) = 0
    THEN Append(items, item)
    ELSE [items EXCEPT ![IndexOf(items, item.key)] = item]

----------------------------------------------------------------------------
\* StateStore

DefaultDoc ==
    [open_empty_trays |-> <<>>, events |-> <<>>, last_scan_at |-> NoTime]

state_path == "printer_monitor_state.json"
tmp_path_in_place == state_path
tmp_path == "printer_monitor_state.tmp"

\* What a file can hold. A file opened for writing and not yet closed holds
\* a prefix of the text, which is not a JSON document: Truncated.
Missing == [kind |-> "missing"]
Truncated == [kind |-> "truncated"]
NotUtf8 == [kind |-> "not_utf8"]
Unreadable == [kind |-> "unreadable"]
\* json.dumps(d): a file whose text is the JSON document of value d.
JsonFile(d) == [kind |-> "json", value |-> d]

\* JSON values that are not a document of the expected shape: the array []
\* and the object {}.
JsonArray == [json_type |-> "array"]
EmptyObject == <<>>
IsDict(d) == "json_type" \notin DOMAIN d

\* load(): what __init__ leaves in self.data, or that it raised.
\* Only json.JSONDecodeError and OSError are caught.
load(files) ==
    LET file == files[state_path]
    IN CASE file.kind = "missing" -> [raised |-> FALSE, data |-> DefaultDoc]
         [] file.kind = "json" -> [raised |-> FALSE, data |-> file.value]
         [] file.kind = "truncated" -> [raised |-> FALSE, data |-> DefaultDoc]
         [] file.kind = "unreadable" -> [raised |-> FALSE, data |-> DefaultDoc]
         [] file.kind = "not_utf8" -> [raised |-> TRUE, data |-> DefaultDoc]

\* save(), statement by statement. write_text opens tmp_path for writing,
\* which truncates it, then writes the text and closes the file; replace
\* renames tmp_path to state_path in one step.
SaveOpen(files) == [files EXCEPT ![tmp_path] = Truncated]
SaveWrite(files, d) == [files EXCEPT ![tmp_path] = JsonFile(d)]
SaveReplace(files) ==
    [p \in DOMAIN files |->
        IF p = state_path THEN files[tmp_path]
        ELSE IF p = tmp_path THEN Missing
        ELSE files[p]]

\* save() as a whole.
save(files, d) == SaveReplace(SaveWrite(SaveOpen(files), d))

_append_event_swapped(d, timestamp, event_type, item, note) ==
    LET event == [timestamp |-> timestamp,
                  event_type |-> note,
                  printer_id |-> Get(item, "printer_id", ""),
                  tray |-> Get(item, "tray", ""),
                  empty_since |-> Get(item, "since", NoTime),
                  last_seen |-> Get(item, "last_seen", NoTime),
                  status_message |-> Get(item, "status_message", ""),
                  note |-> event_type]
    IN Put(d, "events", Append(Get(d, "events", <<>>), event))

_append_event(d, timestamp, event_type, item, note) ==
    LET event == [timestamp |-> timestamp,
                  event_type |-> event_type,
                  printer_id |-> Get(item, "printer_id", ""),
                  tray |-> Get(item, "tray", ""),
                  empty_since |-> Get(item, "since", NoTime),
                  last_seen |-> Get(item, "last_seen", NoTime),
                  status_message |-> Get(item, "status_message", ""),
                  note |-> note]
    IN Put(d, "events", Append(Get(d, "events", <<>>), event))

TrimToHead(events, cap) ==
    IF Len(events) > cap THEN SubSeq(events, 1, cap) ELSE events
TrimTo(events, cap) ==
    IF Len(events) > cap
    THEN SubSeq(events, Len(events) - cap + 1, Len(events))
    ELSE events

_trim_events(d) ==
    Put(d, "events", TrimTo(Get(d, "events", <<>>), MAX_EVENTS))

\* item["since"] = since; item["last_seen"] = last_seen
StampLastSeenOnly(item, since, last_seen) == Put(item, "last_seen", last_seen)
Stamp(item, since, last_seen) ==
    Put(Put(item, "since", since), "last_seen", last_seen)

\* The since an open-to-open key keeps: prior.get("since", scan_time).
KeptSinceRestamped(prior, scan_time) == scan_time
KeptSince(prior, scan_time) == Get(prior, "since", scan_time)

\* prior = previous.get(key): the position of the prior entry, 0 for None.
previous_get_miss(previous, key) == 0
previous_get(previous, key) == IndexOf(previous, key)

\* The first loop of reconcile, over current_empties.items().
\* acc = [d: the document (events grow), open_after, added].
RECURSIVE ReconcileCurrent(_, _, _, _)
ReconcileCurrent(cur, previous, scan_time, acc) ==
    IF cur = <<>> THEN acc
    ELSE LET item == Head(cur)
             p == previous_get(previous, item.key)
         IN IF p = 0
            THEN LET stamped == Stamp(item, scan_time, scan_time)
                 IN ReconcileCurrent(Tail(cur), previous, scan_time,
                      [d |-> _append_event(acc.d, scan_time, "empty", stamped,
                                           "detected by monitor"),
                       open_after |-> DictSet(acc.open_after, stamped),
                       added |-> acc.added + 1])
            ELSE LET stamped == Stamp(item, KeptSince(previous[p], scan_time),
                                      scan_time)
                 IN ReconcileCurrent(Tail(cur), previous, scan_time,
                      [d |-> acc.d,
                       open_after |-> DictSet(acc.open_after, stamped),
                       added |-> acc.added])

\* resolved_item = dict(prior); resolved_item["last_seen"] = scan_time
ResolvedItemNoStamp(prior, scan_time) == prior
ResolvedItem(prior, scan_time) == Put(prior, "last_seen", scan_time)

\* The second loop of reconcile, over previous.items().
\* acc = [d, filled].
RECURSIVE ReconcilePrevious(_, _, _, _)
ReconcilePrevious(prev, current_keys, scan_time, acc) ==
    IF prev = <<>> THEN acc
    ELSE LET prior == Head(prev)
         IN IF prior.key \notin current_keys
            THEN ReconcilePrevious(Tail(prev), current_keys, scan_time,
                   [d |-> _append_event(acc.d, scan_time, "filled",
                                        ResolvedItem(prior, scan_time),
                                        "no longer reported empty"),
                    filled |-> acc.filled + 1])
            ELSE ReconcilePrevious(Tail(prev), current_keys, scan_time, acc)

\* What a call that raised leaves: self.data.get on a value that is not a
\* dict raises AttributeError before anything is changed.
Raised(d) ==
    [data |-> d, untrimmed |-> <<>>, saved |-> FALSE, raised |-> TRUE]

\* reconcile(current_empties, scan_time) on document d:
\* [data: the document after the call, untrimmed: its events before the
\*  trim, saved: whether save() was called, raised, ret: the returned counts].
reconcile(d, current_empties, scan_time) ==
    IF ~IsDict(d) THEN Raised(d) ELSE
    LET previous == Get(d, "open_empty_trays", <<>>)
        a == ReconcileCurrent(current_empties, previous, scan_time,
                              [d |-> d, open_after |-> <<>>, added |-> 0])
        b == ReconcilePrevious(previous, KeysOf(current_empties), scan_time,
                               [d |-> a.d, filled |-> 0])
        d1 == Put(b.d, "open_empty_trays", a.open_after)
        d2 == Put(d1, "last_scan_at", scan_time)
    IN [data |-> _trim_events(d2),
        untrimmed |-> Get(d2, "events", <<>>),
        saved |-> TRUE, raised |-> FALSE,
        ret |-> [new_empties |-> a.added, new_filled |-> b.filled]]

\* manual_mark_filled(tray_key, timestamp) on document d.
manual_mark_filled_no_return(d, tray_key, timestamp) ==
    IF ~IsDict(d) THEN Raised(d) ELSE
    LET current == Get(d, "open_empty_trays", <<>>)
        p == IndexOf(current, tray_key)
        d1 == IF p = 0 THEN d
              ELSE _append_event(d, timestamp, "filled",
                                 Put(current[p], "last_seen", timestamp),
                                 "manually marked filled")
        d2 == Put(d1, "open_empty_trays",
                  IF p = 0 THEN current ELSE RemoveAt(current, p))
        d3 == Put(d2, "last_scan_at", timestamp)
    IN [data |-> _trim_events(d3), untrimmed |-> Get(d3, "events", <<>>),
        saved |-> TRUE, raised |-> FALSE, ret |-> p # 0]
manual_mark_filled(d, tray_key, timestamp) ==
    IF ~IsDict(d) THEN Raised(d) ELSE
    LET current == Get(d, "open_empty_trays", <<>>)
        p == IndexOf(current, tray_key)
    IN IF p = 0
       THEN [data |-> d, untrimmed |-> Get(d, "events", <<>>),
             saved |-> FALSE, raised |-> FALSE, ret |-> FALSE]
       ELSE LET item == Put(current[p], "last_seen", timestamp)
                d1 == _append_event(d, timestamp, "filled", item,
                                    "manually marked filled")
                d2 == Put(d1, "open_empty_trays", RemoveAt(current, p))
                d3 == Put(d2, "last_scan_at", timestamp)
            IN [data |-> _trim_events(d3),
                untrimmed |-> Get(d3, "events", <<>>),
                saved |-> TRUE, raised |-> FALSE, ret |-> TRUE]

\* get_open_empties()
OpenTrays(d) == Get(d, "open_empty_trays", <<>>)

\* The events a call appended: what the untrimmed list holds beyond the
\* events the document had before.
Appended(d, r) ==
    IF r.raised THEN <<>>
    ELSE SubSeq(r.untrimmed, Len(Get(d, "events", <<>>)) + 1, Len(r.untrimmed))

\* What the caller gets back: the returned value, or the exception.
Returned(call, r) ==
    IF r.raised THEN call @@ [raised |-> TRUE]
    ELSE IF call.op = "reconcile"
         THEN call @@ [raised |-> FALSE, value |-> r.ret]
         ELSE call @@ [raised |-> FALSE, updated |-> r.ret]

----------------------------------------------------------------------------
\* Inputs

\* The entry build_current_empties makes for one empty tray.
SnapshotItem(key, status) ==
    [key |-> key, printer_id |-> printer_id(key), tray |-> tray(key),
     status_message |-> status]

\* The snapshots build_current_empties can return at time t: ordered dicts
\* with distinct keys.
Snapshots(t) ==
    {<<>>}
    \cup {<<SnapshotItem(k, StatusAt(t))>> : k \in KEYS}
    \cup {<<SnapshotItem(k1, StatusAt(t)), SnapshotItem(k2, StatusAt(t))>> :
            <<k1, k2>> \in {q \in KEYS \X KEYS : q[1] # q[2]}}

----------------------------------------------------------------------------
\* The store under any sequence of calls

Idle == [pc |-> "idle"]

\* No parsing function called.
NotEvaluated == [fn |-> "none"]

\* No thread in this slot.
NoThread == [pc |-> "none"]
DEFAULT_URL == ""
MONITOR_URL == "http://monitor/status"

\* The app after PrinterMonitorApp.__init__: the startup trigger_refresh found
\* the URL entry empty and returned.
AppInit ==
    /\ refresh_in_progress = FALSE
    /\ next_auto_refresh_epoch = NoTime
    /\ url_var = DEFAULT_URL
    /\ auto_refresh_var = FALSE
    /\ refresh_interval_var = DEFAULT_INTERVAL_MINUTES
    /\ thresholds_valid = TRUE
    /\ open_empties = <<>>
    /\ workers = [w \in 1..MaxWorkers |-> NoThread]
    /\ callbacks = <<>>
    /\ req = "no_url"
    /\ state_lock = "free"
    /\ foreground = Idle

\* The state after StateStore(state_path) found no file.
Init ==
    /\ data = DefaultDoc
    /\ fs = [p \in {state_path, tmp_path} |-> Missing]
    /\ history = <<>>
    /\ ret = [op |-> "init", raised |-> FALSE]
    /\ clock = 1
    /\ boot = [state |-> "ok", file |-> Missing]
    /\ saving = Idle
    /\ last_written = Missing
    /\ AppInit
    /\ evaluated = NotEvaluated

Tick ==
    /\ clock < MaxTime
    /\ clock' = clock + 1
    /\ UNCHANGED <<storevars, appvars, evaluated>>

\* A call of reconcile or manual_mark_filled with result r, save() included:
\* what it does to the store.
StoreEffect(call, r) ==
    /\ boot.state = "ok"
    /\ saving = Idle
    /\ Len(history \o Appended(data, r)) <= MaxHistory
    /\ data' = r.data
    /\ fs' = IF r.saved THEN save(fs, r.data) ELSE fs
    /\ last_written' = IF r.saved THEN JsonFile(r.data) ELSE last_written
    /\ history' = history \o Appended(data, r)
    /\ ret' = Returned(call, r)
    /\ UNCHANGED <<clock, boot, saving>>

StoreCall(call, r) ==
    StoreEffect(call, r) /\ UNCHANGED <<appvars, evaluated>>

\* The same call when save() raises OSError opening tmp_path: the document
\* was changed in memory, no file was touched, the exception reaches the caller.
StoreFailure(call, r) ==
    /\ boot.state = "ok"
    /\ saving = Idle
    /\ r.saved
    /\ Len(history \o Appended(data, r)) <= MaxHistory
    /\ data' = r.data
    /\ history' = history \o Appended(data, r)
    /\ ret' = call @@ [raised |-> TRUE]
    /\ UNCHANGED <<fs, last_written, clock, boot, saving>>

ReconcileCall(current_empties) ==
    StoreCall([op |-> "reconcile", current_empties |-> current_empties],
              reconcile(data, current_empties, clock))

Reconcile ==
    \E current_empties \in Snapshots(clock) : ReconcileCall(current_empties)

ManualCall(tray_key) ==
    StoreCall([op |-> "manual_mark_filled", tray_key |-> tray_key],
              manual_mark_filled(data, tray_key, clock))

ManualMarkFilled == \E tray_key \in KEYS : ManualCall(tray_key)

Next == Tick \/ Reconcile \/ ManualMarkFilled

Spec == Init /\ [][Next]_vars

\* reconcile(current_empties, now) when its save() raises OSError.
ReconcileFails ==
    /\ \E current_empties \in Snapshots(clock) :
         StoreFailure([op |-> "reconcile", current_empties |-> current_empties],
                      reconcile(data, current_empties, clock))
    /\ UNCHANGED <<appvars, evaluated>>

\* manual_mark_filled(tray_key, now) when its save() raises OSError.
ManualFails ==
    /\ \E tray_key \in KEYS :
         StoreFailure([op |-> "manual_mark_filled", tray_key |-> tray_key],
                      manual_mark_filled(data, tray_key, clock))
    /\ UNCHANGED <<appvars, evaluated>>

NextFail ==
    \/ Tick
    \/ Reconcile
    \/ ManualMarkFilled
    \/ ReconcileFails
    \/ ManualFails

\* The store under any sequence of calls, some of whose writes fail.
SpecFail == Init /\ [][NextFail]_vars

----------------------------------------------------------------------------
\* Bootstrap: StateStore(state_path) over whatever the file holds

\* A document an earlier run saved: one tray detected at time 1.
SavedDoc ==
    reconcile(DefaultDoc, <<SnapshotItem("10001::Tray 1", StatusAt(1))>>, 1).data

BootFiles ==
    {Missing, Truncated, NotUtf8, Unreadable,
     JsonFile(JsonArray), JsonFile(EmptyObject), JsonFile(SavedDoc)}

InitBoot ==
    /\ data = DefaultDoc
    /\ \E file \in BootFiles :
         /\ fs = [p \in {state_path, tmp_path} |->
                    IF p = state_path THEN file ELSE Missing]
         /\ boot = [state |-> "pending", file |-> file]
         /\ last_written = file
    /\ history = <<>>
    /\ ret = [op |-> "init", raised |-> FALSE]
    /\ clock = 1
    /\ saving = Idle
    /\ AppInit
    /\ evaluated = NotEvaluated

\* __init__: self.data = the default document; self.load().
Load ==
    /\ boot.state = "pending"
    /\ LET r == load(fs)
       IN /\ data' = r.data
          /\ boot' = [boot EXCEPT !.state = IF r.raised THEN "raised" ELSE "ok"]
          /\ ret' = [op |-> "init", raised |-> r.raised]
    /\ UNCHANGED <<fs, history, clock, saving, last_written, appvars, evaluated>>

NextBoot == Load \/ Tick \/ Reconcile \/ ManualMarkFilled

SpecBoot == InitBoot /\ [][NextBoot]_vars

----------------------------------------------------------------------------
\* Interrupted saves: the calls with save() statement by statement, and the
\* process killed at any point and started again.

\* The in-memory part of a call, up to the call of save().
BeginCall(call, r) ==
    /\ boot.state = "ok"
    /\ saving = Idle
    /\ Len(history \o Appended(data, r)) <= MaxHistory
    /\ data' = r.data
    /\ history' = history \o Appended(data, r)
    /\ IF r.saved
       THEN /\ saving' = [pc |-> "open", ret |-> Returned(call, r)]
            /\ UNCHANGED ret
       ELSE /\ ret' = Returned(call, r)
            /\ UNCHANGED saving
    /\ UNCHANGED <<fs, clock, boot, last_written, appvars, evaluated>>

BeginReconcile ==
    \E current_empties \in Snapshots(clock) :
        BeginCall([op |-> "reconcile", current_empties |-> current_empties],
                  reconcile(data, current_empties, clock))

BeginManual ==
    \E tray_key \in KEYS :
        BeginCall([op |-> "manual_mark_filled", tray_key |-> tray_key],
                  manual_mark_filled(data, tray_key, clock))

\* tmp_path.write_text(...): open, which truncates the file.
SaveOpenStep ==
    /\ saving.pc = "open"
    /\ fs' = SaveOpen(fs)
    /\ saving' = [saving EXCEPT !.pc = "write"]
    /\ UNCHANGED <<data, history, ret, clock, boot, last_written, appvars, evaluated>>

\* tmp_path.write_text(...): the text written and the file closed.
SaveWriteStep ==
    /\ saving.pc = "write"
    /\ fs' = SaveWrite(fs, data)
    /\ saving' = [saving EXCEPT !.pc = "replace"]
    /\ UNCHANGED <<data, history, ret, clock, boot, last_written, appvars, evaluated>>

\* tmp_path.replace(self.state_path), and the call returns.
SaveReplaceStep ==
    /\ saving.pc = "replace"
    /\ fs' = SaveReplace(fs)
    /\ last_written' = JsonFile(data)
    /\ ret' = saving.ret
    /\ saving' = Idle
    /\ UNCHANGED <<data, history, clock, boot, appvars, evaluated>>

\* The process dies, wherever it is, and the program is started again.
Crash ==
    /\ boot.state = "ok"
    /\ LET r == load(fs)
       IN /\ data' = r.data
          /\ boot' = [state |-> IF r.raised THEN "raised" ELSE "ok",
                      file |-> fs[state_path]]
          /\ ret' = [op |-> "init", raised |-> r.raised,
                     interrupted |-> saving.pc]
    /\ saving' = Idle
    /\ UNCHANGED <<fs, history, clock, last_written, appvars, evaluated>>

\* The clock stands still here: what the files hold at each point of save()
\* does not depend on the timestamps written.
NextCrash ==
    \/ BeginReconcile
    \/ BeginManual
    \/ SaveOpenStep
    \/ SaveWriteStep
    \/ SaveReplaceStep
    \/ Crash

SpecCrash == Init /\ [][NextCrash]_vars

----------------------------------------------------------------------------
\* PrinterMonitorApp: the foreground thread, whose handlers run one at a
\* time, and the _refresh_worker threads.

Running == {w \in DOMAIN workers : workers[w].pc # "none"}

\* Line 1022: the in-flight test of trigger_refresh.
InFlightIgnored == FALSE
InFlight == refresh_in_progress

\* threading.Thread(target=self._refresh_worker, ...).start()
\* by remembers who asked for the scan (history field).
StartWorker(by) ==
    /\ \E w \in DOMAIN workers : workers[w].pc = "none"
    /\ LET w == CHOOSE w \in DOMAIN workers : workers[w].pc = "none"
       IN workers' = [workers EXCEPT ![w] = [pc |-> "fetch", by |-> by]]

\* trigger_refresh()
TriggerRefresh(by) ==
    /\ foreground = Idle
    /\ IF InFlight
       THEN /\ req' = "suppressed"
            /\ UNCHANGED <<refresh_in_progress, workers>>
       ELSE IF url_var = ""
       THEN /\ req' = "no_url"
            /\ UNCHANGED <<refresh_in_progress, workers>>
       ELSE /\ refresh_in_progress' = TRUE
            /\ IF thresholds_valid
               THEN /\ StartWorker(by)
                    /\ req' = "started"
               ELSE \* toner_threshold_var.get() raises TclError
                    /\ req' = "raised"
                    /\ UNCHANGED workers
    /\ UNCHANGED <<evaluated, lockvars, storevars, clock, next_auto_refresh_epoch, url_var,
                   auto_refresh_var, refresh_interval_var, thresholds_valid, open_empties, callbacks>>

\* The Refresh Now button.
RefreshNow == TriggerRefresh("button")

\* _auto_refresh_tick(), every 1000 ms.
\* Line 1187: the scan is due.
DueAlways == TRUE
Due ==
    \/ next_auto_refresh_epoch = NoTime
    \/ clock >= next_auto_refresh_epoch

AutoRefreshTick ==
    /\ foreground = Idle
    /\ IF auto_refresh_var /\ ~refresh_in_progress /\ Due
       THEN TriggerRefresh("tick")
       ELSE UNCHANGED vars

\* The user edits the URL entry.
EditUrl ==
    /\ foreground = Idle
    /\ url_var' = IF url_var = "" THEN MONITOR_URL ELSE ""
    /\ UNCHANGED <<evaluated, lockvars, storevars, clock, refresh_in_progress,
                   next_auto_refresh_epoch, auto_refresh_var, refresh_interval_var, thresholds_valid,
                   open_empties, workers, callbacks, req>>

\* The user edits the "Every (min)" entry; the entry holds an integer.
INTERVALS == {DEFAULT_INTERVAL_MINUTES, DEFAULT_INTERVAL_MINUTES + 1}
EditInterval ==
    /\ foreground = Idle
    /\ \E interval \in INTERVALS \ {refresh_interval_var} :
         refresh_interval_var' = interval
    /\ UNCHANGED <<evaluated, lockvars, storevars, clock, refresh_in_progress,
                   next_auto_refresh_epoch, url_var, auto_refresh_var,
                   thresholds_valid, open_empties, workers, callbacks, req>>

\* The user ticks or clears the auto-refresh checkbox.
ToggleAutoRefresh ==
    /\ foreground = Idle
    /\ auto_refresh_var' = ~auto_refresh_var
    /\ UNCHANGED <<evaluated, lockvars, storevars, clock, refresh_in_progress,
                   next_auto_refresh_epoch, url_var, refresh_interval_var, thresholds_valid,
                   open_empties, workers, callbacks, req>>

\* The user edits a threshold entry: its text is an integer or is not.
EditThreshold ==
    /\ foreground = Idle
    /\ thresholds_valid' = ~thresholds_valid
    /\ UNCHANGED <<evaluated, lockvars, storevars, clock, refresh_in_progress,
                   next_auto_refresh_epoch, url_var, auto_refresh_var, refresh_interval_var,
                   open_empties, workers, callbacks, req>>

\* root.after(0, callback), the last statement of the thread.
PostAndExit(w, callback) ==
    /\ callbacks' = Append(callbacks, callback)
    /\ workers' = [workers EXCEPT ![w] = NoThread]

\* Lines 1047-1048: no record parsed raises ValueError.
NoRecordsAccepted == FALSE
RaisesOnNoRecords == TRUE

\* _refresh_worker, lines 1045-1052: fetch, parse, build the alerts and the
\* snapshot, read the clock. A URLError, or no record parsed, posts
\* _refresh_error.
WorkerFetch(w) ==
    /\ workers[w].pc = "fetch"
    /\ \/ \E current_empties \in Snapshots(clock) :
            /\ workers' = [workers EXCEPT ![w] =
                 [pc |-> "reconcile", records |-> "some",
                  current_empties |-> current_empties, scan_time |-> clock]]
            /\ UNCHANGED callbacks
       \/ PostAndExit(w, [fn |-> "_refresh_error", message |-> "Network error"])
       \/ IF RaisesOnNoRecords
          THEN PostAndExit(w, [fn |-> "_refresh_error",
                               message |-> "No printer rows were parsed"])
          ELSE /\ workers' = [workers EXCEPT ![w] =
                    [pc |-> "reconcile", records |-> "none",
                     current_empties |-> <<>>, scan_time |-> clock]]
               /\ UNCHANGED callbacks
    /\ UNCHANGED <<evaluated, lockvars, storevars, clock, refresh_in_progress,
                   next_auto_refresh_epoch, url_var, auto_refresh_var, refresh_interval_var,
                   thresholds_valid, open_empties, req>>

\* with self.state_lock: the lock can be taken when nobody holds it.
AcquirableAlways == TRUE
Acquirable == state_lock = "free"

\* _refresh_worker, lines 1054-1055: the lock taken and reconcile called. When
\* save() raises, the with block releases the lock and line 1070 reports.
\* mutated remembers the open trays this call left (history field).
WorkerReconcile(w) ==
    /\ workers[w].pc = "reconcile"
    /\ Acquirable
    /\ LET call == [op |-> "reconcile",
                    current_empties |-> workers[w].current_empties]
           r == reconcile(data, workers[w].current_empties,
                          workers[w].scan_time)
       IN \/ /\ StoreEffect(call, r)
             /\ state_lock' = "worker"
             /\ workers' = [workers EXCEPT ![w] =
                  [pc |-> "readback", scan_time |-> workers[w].scan_time,
                   mutated |-> OpenTrays(data')]]
             /\ UNCHANGED callbacks
          \/ /\ StoreFailure(call, r)
             /\ UNCHANGED state_lock
             /\ PostAndExit(w, [fn |-> "_refresh_error", message |-> "OSError"])
    /\ UNCHANGED <<refresh_in_progress, next_auto_refresh_epoch, url_var,
                   auto_refresh_var, refresh_interval_var, thresholds_valid, open_empties, req,
                   foreground, evaluated>>

\* _refresh_worker, lines 1056-1057: the two reads, and the lock released.
WorkerReadBack(w) ==
    /\ workers[w].pc = "readback"
    /\ workers' = [workers EXCEPT ![w] =
         [pc |-> "post", scan_time |-> workers[w].scan_time,
          mutated |-> workers[w].mutated,
          open_empties |-> OpenTrays(data)]]
    /\ state_lock' = "free"
    /\ UNCHANGED <<storevars, clock, refresh_in_progress,
                   next_auto_refresh_epoch, url_var, auto_refresh_var, refresh_interval_var,
                   thresholds_valid, open_empties, callbacks, req, foreground,
                   evaluated>>

\* _refresh_worker, lines 1059-1067: the payload handed to the foreground.
WorkerPost(w) ==
    /\ workers[w].pc = "post"
    /\ PostAndExit(w, [fn |-> "_apply_refresh",
                       scan_time |-> workers[w].scan_time,
                       open_empties |-> workers[w].open_empties])
    /\ UNCHANGED <<evaluated, lockvars, storevars, clock, refresh_in_progress,
                   next_auto_refresh_epoch, url_var, auto_refresh_var, refresh_interval_var,
                   thresholds_valid, open_empties, req>>

\* interval = max(1, self.refresh_interval_var.get())
\* The next due time: now + interval * 60.
NextDue ==
    clock + (IF refresh_interval_var >= 1 THEN refresh_interval_var ELSE 1)

\* _apply_refresh(payload), run by the foreground from the callback queue.
ApplyRefresh ==
    /\ foreground = Idle
    /\ callbacks # <<>>
    /\ Head(callbacks).fn = "_apply_refresh"
    /\ refresh_in_progress' = FALSE
    /\ open_empties' = Head(callbacks).open_empties
    /\ next_auto_refresh_epoch' = NextDue
    /\ callbacks' = Tail(callbacks)
    /\ req' = "applied"
    /\ UNCHANGED <<evaluated, lockvars, storevars, clock, url_var, auto_refresh_var, refresh_interval_var,
                   thresholds_valid, workers>>

\* Line 1101: _refresh_error clears the in-flight flag.
FlagAfterErrorKept == refresh_in_progress
FlagAfterError == FALSE

\* _refresh_error(message)
RefreshError ==
    /\ foreground = Idle
    /\ callbacks # <<>>
    /\ Head(callbacks).fn = "_refresh_error"
    /\ refresh_in_progress' = FlagAfterError
    /\ next_auto_refresh_epoch' = NextDue
    /\ callbacks' = Tail(callbacks)
    /\ req' = "failed"
    /\ UNCHANGED <<evaluated, lockvars, storevars, clock, url_var, auto_refresh_var, refresh_interval_var,
                   thresholds_valid, open_empties, workers>>

\* mark_selected_filled(), the user having selected a displayed tray and
\* answered yes: lines 1270-1273, the lock taken and manual_mark_filled
\* called.
MarkSelectedFilled ==
    /\ foreground = Idle
    /\ Acquirable
    /\ \E i \in DOMAIN open_empties :
        LET key == Get(open_empties[i], "key", "")
            r == manual_mark_filled(data, key, clock)
        IN /\ StoreEffect([op |-> "manual_mark_filled", tray_key |-> key], r)
           /\ foreground' = [pc |-> "locked", updated |-> r.ret,
                             mutated |-> OpenTrays(data')]
    /\ state_lock' = "main"
    /\ UNCHANGED <<refresh_in_progress, next_auto_refresh_epoch,
                   url_var, auto_refresh_var, refresh_interval_var, thresholds_valid,
                   open_empties, workers, callbacks, req, evaluated>>

\* mark_selected_filled(), lines 1274-1285: the view read back when the call
\* returned True, and the lock released.
MarkReadBack ==
    /\ foreground.pc = "locked"
    /\ open_empties' =
         IF foreground.updated THEN OpenTrays(data) ELSE open_empties
    /\ state_lock' = "free"
    /\ foreground' = Idle
    /\ UNCHANGED <<storevars, clock, refresh_in_progress,
                   next_auto_refresh_epoch, url_var, auto_refresh_var, refresh_interval_var,
                   thresholds_valid, workers, callbacks, req, evaluated>>

NextApp ==
    \/ Tick
    \/ RefreshNow
    \/ AutoRefreshTick
    \/ EditUrl
    \/ ToggleAutoRefresh
    \/ EditThreshold
    \/ \E w \in DOMAIN workers : WorkerFetch(w)
    \/ \E w \in DOMAIN workers : WorkerReconcile(w)
    \/ \E w \in DOMAIN workers : WorkerReadBack(w)
    \/ \E w \in DOMAIN workers : WorkerPost(w)
    \/ ApplyRefresh
    \/ RefreshError
    \/ MarkSelectedFilled
    \/ MarkReadBack

SpecApp == Init /\ [][NextApp]_vars

\* Scanning and its timer: the app of a user who sets the interval and leaves
\* the tray list alone.
NextTimer ==
    \/ Tick
    \/ RefreshNow
    \/ AutoRefreshTick
    \/ EditUrl
    \/ EditInterval
    \/ ToggleAutoRefresh
    \/ EditThreshold
    \/ \E w \in DOMAIN workers : WorkerFetch(w)
    \/ \E w \in DOMAIN workers : WorkerReconcile(w)
    \/ \E w \in DOMAIN workers : WorkerReadBack(w)
    \/ \E w \in DOMAIN workers : WorkerPost(w)
    \/ ApplyRefresh
    \/ RefreshError

SpecTimer == Init /\ [][NextTimer]_vars

\* The Tk main loop runs every callback root.after(0, ...) queued, between
\* two handlers, however many other events arrive; a handler that holds the
\* lock runs to its end.
SpecAppLive ==
    /\ SpecApp
    /\ SF_callbacks(ApplyRefresh) /\ SF_callbacks(RefreshError)
    /\ WF_foreground(MarkReadBack)

----------------------------------------------------------------------------
\* The parsing functions. A string is the sequence of its characters.

DIGITS == {"0", "1", "2", "3", "4", "5", "6", "7", "8", "9"}
UPPER == {"A", "B", "R", "T", "Y"}
LOWER == {"a", "b", "r", "t", "y"}

\* str.upper() on one character.
Upper(c) ==
    CASE c = "a" -> "A" [] c = "b" -> "B" [] c = "r" -> "R"
      [] c = "t" -> "T" [] c = "y" -> "Y" [] OTHER -> c

DigitValue(c) ==
    CASE c = "0" -> 0 [] c = "1" -> 1 [] c = "2" -> 2 [] c = "3" -> 3
      [] c = "4" -> 4 [] c = "5" -> 5 [] c = "6" -> 6 [] c = "7" -> 7
      [] c = "8" -> 8 [] c = "9" -> 9

DigitChar(n) == CHOOSE c \in DIGITS : DigitValue(c) = n

\* str.isdigit()
isdigit(str) == str # <<>> /\ \A i \in DOMAIN str : str[i] \in DIGITS

\* int(str) for a string of digits.
RECURSIVE int(_)
int(str) ==
    IF str = <<>> THEN 0
    ELSE 10 * int(SubSeq(str, 1, Len(str) - 1)) + DigitValue(str[Len(str)])

\* str(n) for n >= 0.
RECURSIVE StrOf(_)
StrOf(n) ==
    IF n < 10 THEN <<DigitChar(n)>>
    ELSE Append(StrOf(n \div 10), DigitChar(n % 10))

\* re.sub(r"[^A-Za-z0-9-]", "", value).upper()
RECURSIVE TokenOf(_)
TokenOf(value) ==
    IF value = <<>> THEN <<>>
    ELSE IF Head(value) \in DIGITS \cup UPPER \cup LOWER \cup {"-"}
         THEN <<Upper(Head(value))>> \o TokenOf(Tail(value))
         ELSE TokenOf(Tail(value))

TrayLabel(token) == <<"T", "r", "a", "y", " ">> \o token
UnknownTray ==
    <<"U", "n", "k", "n", "o", "w", "n", " ", "T", "r", "a", "y">>

\* token[4:] or "UNKNOWN"
Remainder(token) ==
    IF Len(token) > 4 THEN SubSeq(token, 5, Len(token))
    ELSE <<"U", "N", "K", "N", "O", "W", "N">>

\* normalize_tray(value)
normalize_tray(value) ==
    LET token == TokenOf(value)
    IN IF token = <<>> THEN UnknownTray
       ELSE IF isdigit(token) THEN TrayLabel(StrOf(int(token)))
       ELSE IF Len(token) >= 4 /\ SubSeq(token, 1, 4) = <<"T", "R", "A", "Y">>
            THEN LET rest == Remainder(token)
                 IN IF isdigit(rest) THEN TrayLabel(StrOf(int(rest)))
                    ELSE TrayLabel(rest)
       ELSE TrayLabel(token)

\* The strings of at most n characters over a set of characters.
RECURSIVE Strings(_, _)
Strings(chars, n) ==
    IF n = 0 THEN {<<>>}
    ELSE LET shorter == Strings(chars, n - 1)
         IN shorter \cup {Append(str, c) : str \in shorter, c \in chars}

\* The captured tokens normalize_tray is tried on: an optional "tray" in one
\* of three spellings, then up to MaxBody characters.
TrayValues ==
    {prefix \o body :
        prefix \in {<<>>, <<"t", "r", "a", "y">>, <<"T", "R", "A", "Y">>,
                    <<"T", "r", "a", "y">>},
        body \in Strings({"0", "7", "B", "b", "-", " ", "!"}, MaxBody)}

\* A call normalize_tray(value).
NormalizeTray ==
    /\ evaluated = NotEvaluated
    /\ \E value \in TrayValues :
         evaluated' = [fn |-> "normalize_tray", value |-> value,
                       label |-> normalize_tray(value)]
    /\ UNCHANGED <<storevars, clock, appvars>>

\* A dict with no key.
EmptyDict == [k \in {} |-> 0]

\* A row tail is the sequence of its words, the maximal runs of letters and
\* digits; whatever separates them (blanks, "/", ":", ".", "%") is no part of
\* a word. re.findall(r"\b(\d{1,3})\b", row_tail) is then the words made of
\* one to three digits, and numbers their values.
RECURSIVE numbers(_)
numbers(row_tail) ==
    IF row_tail = <<>> THEN <<>>
    ELSE LET word == Head(row_tail)
         IN IF isdigit(word) /\ Len(word) <= 3
            THEN <<int(word)>> \o numbers(Tail(row_tail))
            ELSE numbers(Tail(row_tail))

LEVEL_KEYS ==
    <<"toner_k", "toner_c", "toner_m", "toner_y",
      "drum_k", "drum_c", "drum_m", "drum_y", "belt", "fuser">>

\* numbers[-10:]
FirstTen(nums) == SubSeq(nums, 1, 10)
LastTen(nums) == SubSeq(nums, Len(nums) - 9, Len(nums))

\* dict(zip(keys, candidate))
DictZip(keys, candidate) ==
    [k \in {keys[i] : i \in DOMAIN keys} |->
        candidate[CHOOSE i \in DOMAIN keys : keys[i] = k]]

\* parse_tail_metrics(row_tail): the levels it returns. The last_update it
\* returns with them is the first date and time of the tail and does not
\* depend on the levels.
parse_tail_metrics(row_tail) ==
    LET nums == numbers(row_tail)
    IN IF Len(nums) >= 10
       THEN LET candidate == LastTen(nums)
            IN IF \A i \in DOMAIN candidate :
                      0 <= candidate[i] /\ candidate[i] <= 100
               THEN DictZip(LEVEL_KEYS, candidate)
               ELSE EmptyDict
       ELSE EmptyDict

\* The tails parse_tail_metrics is tried on: the words "1", "2", ..., "n",
\* as they are or with one of them replaced by a word that is out of range,
\* has leading zeros, has four digits or has letters.
OddWords ==
    {<<"1", "0", "1">>, <<"1", "0", "0">>, <<"0", "0">>, <<"9", "9", "9">>,
     <<"1", "0", "0", "0">>, <<"a", "b">>, <<"a", "1", "2">>}

Counting(n) == [i \in 1..n |-> StrOf(i)]

TailValues ==
    UNION {{Counting(n)} \cup
           {[Counting(n) EXCEPT ![i] = word] : i \in 1..n, word \in OddWords} :
           n \in 8..MaxWords}

\* A call parse_tail_metrics(row_tail).
ParseTailMetrics ==
    /\ evaluated = NotEvaluated
    /\ \E row_tail \in TailValues :
         evaluated' = [fn |-> "parse_tail_metrics", row_tail |-> row_tail,
                       levels |-> parse_tail_metrics(row_tail)]
    /\ UNCHANGED <<storevars, clock, appvars>>

\* A line of the page, by the branch of parse_monitor_page that takes it:
\*   [kind |-> "id", printer_id, tail]: five digits, then the row tail;
\*   [kind |-> "status message", text]: "Status message: ...";
\*   [kind |-> "fuser", fuser, belt]: "Fuser: <fuser>% Belt: <belt>%", each
\*     of the two a string of characters, "-" when the line has no such part;
\*   [kind |-> "other"]: any other line.
IdLine(id, tail) == [kind |-> "id", printer_id |-> id, tail |-> tail]
StatusLine(text) == [kind |-> "status message", text |-> text]
FuserLine(fuser, belt) == [kind |-> "fuser", fuser |-> fuser, belt |-> belt]
OtherLine == [kind |-> "other"]

\* re.search(r"fuser:\s*(\d{1,3})%", line): whether it matches.
PercentMatches(text) == isdigit(text) /\ Len(text) <= 3

\* current.levels[key] = int(match.group(1)), with no test of the value.
SetLevel(levels, key, text) ==
    IF PercentMatches(text) THEN Put(levels, key, int(text)) ELSE levels

\* PrinterRecord(printer_id, row_tail, levels, device_last_update)
PrinterRecord(id, tail) ==
    [printer_id |-> id, row_tail |-> tail, status_message |-> <<>>,
     levels |-> parse_tail_metrics(tail)]

\* parse_monitor_page, the loop over the lines. acc = [records, current],
\* current a list of no record (None) or one. finalize_record sets the
\* description and the empty trays of the record and leaves its levels.
RECURSIVE ParseLines(_, _)
ParseLines(lines, acc) ==
    IF lines = <<>> THEN acc.records \o acc.current
    ELSE LET line == Head(lines)
             rest == Tail(lines)
         IN IF line.kind = "id"
            THEN ParseLines(rest,
                   [records |-> acc.records \o acc.current,
                    current |-> <<PrinterRecord(line.printer_id, line.tail)>>])
            ELSE IF acc.current = <<>> THEN ParseLines(rest, acc)
            ELSE LET current == acc.current[1]
                     updated ==
                       CASE line.kind = "status message" ->
                              [current EXCEPT !.status_message = line.text]
                         [] line.kind = "fuser" ->
                              [current EXCEPT !.levels =
                                 SetLevel(SetLevel(@, "fuser", line.fuser),
                                          "belt", line.belt)]
                         [] OTHER -> current
                 IN ParseLines(rest, [records |-> acc.records,
                                      current |-> <<updated>>])

\* parse_monitor_page(html), from the lines html_to_lines makes of the page.
parse_monitor_page(lines) ==
    ParseLines(lines, [records |-> <<>>, current |-> <<>>])

\* The lines the pages are made of.
PageLines ==
    {IdLine(id, tail) :
        id \in {"10001", "10002"},
        tail \in {Counting(10), Counting(9),
                  [Counting(10) EXCEPT ![10] = <<"1", "0", "1">>]}}
    \cup {FuserLine(fuser, belt) :
            <<fuser, belt>> \in {<<<<"5", "0">>, <<"-">>>>,
                                 <<<<"-">>, <<"3", "0">>>>,
                                 <<<<"1", "0", "0">>, <<"0">>>>,
                                 <<<<"1", "5", "0">>, <<"9", "9", "9">>>>,
                                 <<<<"1", "0", "0", "0">>, <<"-">>>>}}
    \cup {StatusLine(<<"low", "fuser">>), OtherLine}

RECURSIVE Pages(_)
Pages(n) ==
    IF n = 0 THEN {<<>>}
    ELSE LET shorter == Pages(n - 1)
         IN shorter \cup {Append(page, line) :
                            page \in shorter, line \in PageLines}

\* A call parse_monitor_page(html).
ParseMonitorPage ==
    /\ evaluated = NotEvaluated
    /\ \E lines \in Pages(MaxLines) :
         evaluated' = [fn |-> "parse_monitor_page", lines |-> lines,
                       records |-> parse_monitor_page(lines)]
    /\ UNCHANGED <<storevars, clock, appvars>>

\* COLOR_MAP[channel] + " Toner"
TonerItem(channel) ==
    CASE channel = "k" -> "Black Toner"
      [] channel = "c" -> "Cyan Toner"
      [] channel = "m" -> "Magenta Toner"
      [] channel = "y" -> "Yellow Toner"

\* record.levels.get(key) is not None and ... <= threshold
AtOrBelow(record, key, threshold) ==
    key \in DOMAIN record.levels /\ record.levels[key] <= threshold

\* mono_like without its second all(...): absent colour levels count as zero.
mono_like_absent(record) ==
    \A key \in {"toner_c", "toner_m", "toner_y"} :
        key \in DOMAIN record.levels => record.levels[key] = 0

\* mono_like: the three colour levels, all zero where present, and all present.
mono_like(record) ==
    /\ \A key \in {"toner_c", "toner_m", "toner_y"} :
           key \in DOMAIN record.levels => record.levels[key] = 0
    /\ \A key \in {"toner_c", "toner_m", "toner_y"} :
           key \in DOMAIN record.levels

\* re.search(r"\blow\s+<word>\b", status_blob). A text is the list of its
\* words, in lower case and a blank apart.
Reports(text, word) ==
    \E i \in 1..(Len(text) - 1) : text[i] = "low" /\ text[i + 1] = word

\* LowAlert(printer_id, description, item, level, source); the description
\* is the record's. level is f"{level}%" or "reported", source is
\* f"threshold <= {threshold}%" or the reason, as lists of pieces.
LevelAlert(record, item, level, threshold) ==
    [printer_id |-> record.printer_id, item |-> item,
     level |-> StrOf(level) \o <<"%">>,
     source |-> <<"threshold <= ">> \o StrOf(threshold) \o <<"%">>]
ReportedAlert(record, item, reason) ==
    [printer_id |-> record.printer_id, item |-> item,
     level |-> <<"reported">>, source |-> <<reason>>]

\* "dedupe not in seen", and its loss.
NeverSeen(dedupe, seen) == TRUE
NotSeen(dedupe, seen) == dedupe \notin seen

\* if <cond> and dedupe not in seen: alerts.append(alert); seen.add(dedupe).
\* acc = [alerts, seen].
Emit(acc, cond, dedupe, alert) ==
    IF cond /\ NotSeen(dedupe, acc.seen)
    THEN [alerts |-> Append(acc.alerts, alert),
          seen |-> acc.seen \cup {dedupe}]
    ELSE acc

\* One turn of "for channel in [k, c, m, y]".
TonerStep(acc, record, channel, toner_threshold) ==
    LET key == IF channel = "k" THEN "toner_k"
               ELSE IF channel = "c" THEN "toner_c"
               ELSE IF channel = "m" THEN "toner_m" ELSE "toner_y"
        item == TonerItem(channel)
    IN IF mono_like(record) /\ channel \in {"c", "m", "y"} THEN acc
       ELSE Emit(acc, AtOrBelow(record, key, toner_threshold),
                 <<record.printer_id, item, "level">>,
                 LevelAlert(record, item, Get(record.levels, key, 0),
                            toner_threshold))

\* One turn of "for pattern, item, reason in keyword_rules".
KeywordStep(acc, record, word, item, reason) ==
    Emit(acc, Reports(record.status_message, word),
         <<record.printer_id, item, reason>>,
         ReportedAlert(record, item, reason))

\* One turn of "for record in records".
RecordStep(acc, record, toner_threshold, fuser_threshold) ==
    LET k == TonerStep(acc, record, "k", toner_threshold)
        c == TonerStep(k, record, "c", toner_threshold)
        m == TonerStep(c, record, "m", toner_threshold)
        y == TonerStep(m, record, "y", toner_threshold)
        f == Emit(y, AtOrBelow(record, "fuser", fuser_threshold),
                  <<record.printer_id, "Fuser", "level">>,
                  LevelAlert(record, "Fuser", Get(record.levels, "fuser", 0),
                             fuser_threshold))
        t == KeywordStep(f, record, "toner", "Toner",
                         "status message reports low toner")
        i == KeywordStep(t, record, "ink", "Ink",
                         "status message reports low ink")
    IN KeywordStep(i, record, "fuser", "Fuser",
                   "status message reports low fuser")

RECURSIVE AlertLoop(_, _, _, _)
AlertLoop(records, acc, toner_threshold, fuser_threshold) ==
    IF records = <<>> THEN acc.alerts
    ELSE AlertLoop(Tail(records),
                   RecordStep(acc, Head(records), toner_threshold,
                              fuser_threshold),
                   toner_threshold, fuser_threshold)

\* The order of Python's str on the printer ids and the items of the model.
StrOrder ==
    <<"10001", "10002", "Black Toner", "Cyan Toner", "Fuser", "Ink",
      "Magenta Toner", "Toner", "Yellow Toner">>
StrRank(str) == CHOOSE i \in DOMAIN StrOrder : StrOrder[i] = str

\* (a.printer_id, a.item) < (b.printer_id, b.item)
KeyBefore(a, b) ==
    \/ StrRank(a.printer_id) < StrRank(b.printer_id)
    \/ /\ a.printer_id = b.printer_id
       /\ StrRank(a.item) < StrRank(b.item)

\* sorted(alerts, key=...): stable, an alert goes after its equals.
RECURSIVE InsertAlert(_, _)
InsertAlert(sorted, alert) ==
    IF sorted = <<>> THEN <<alert>>
    ELSE IF KeyBefore(alert, Head(sorted)) THEN <<alert>> \o sorted
    ELSE <<Head(sorted)>> \o InsertAlert(Tail(sorted), alert)

RECURSIVE SortAlerts(_, _)
SortAlerts(alerts, sorted) ==
    IF alerts = <<>> THEN sorted
    ELSE SortAlerts(Tail(alerts), InsertAlert(sorted, Head(alerts)))

\* build_low_alerts(records, toner_threshold, fuser_threshold)
build_low_alerts(records, toner_threshold, fuser_threshold) ==
    SortAlerts(AlertLoop(records, [alerts |-> <<>>, seen |-> {}],
                         toner_threshold, fuser_threshold),
               <<>>)

\* The records the alerts are built from: levels a scan can give a printer,
\* and status messages with and without the keywords.
LevelChoices ==
    {[key \in keys |-> IF key = "toner_k" THEN k
                       ELSE IF key = "fuser" THEN 10
                       ELSE cmy[key]] :
        keys \in SUBSET {"toner_k", "toner_c", "toner_m", "toner_y", "fuser"},
        k \in {5, 50},
        cmy \in [{"toner_c", "toner_m", "toner_y"} -> {0, 5}]}
StatusChoices ==
    {<<>>, <<"low", "fuser">>, <<"below", "fuser">>,
     <<"low", "toner", "low", "ink">>}
RecordOf(id, status, levels) ==
    [printer_id |-> id, row_tail |-> <<>>, status_message |-> status,
     levels |-> levels]
AlertRecords ==
    {RecordOf("10001", status, levels) :
        status \in StatusChoices, levels \in LevelChoices}
OtherRecords ==
    {RecordOf("10001", <<>>, [key \in {"toner_c"} |-> 5]),
     RecordOf("10002", <<"low", "fuser">>,
              [key \in {"toner_k", "fuser"} |-> 10])}
RecordLists ==
    {<<record>> : record \in AlertRecords}
    \cup {<<record, record>> : record \in AlertRecords}
    \cup {<<record, other>> :
            record \in AlertRecords, other \in OtherRecords}
    \cup {<<other, record>> :
            record \in AlertRecords, other \in OtherRecords}

\* A call build_low_alerts(records, toner_threshold, fuser_threshold).
BuildLowAlerts ==
    /\ evaluated = NotEvaluated
    /\ \E records \in RecordLists, toner_threshold \in {0, 15} :
         \E fuser_threshold \in {20} :
           evaluated' = [fn |-> "build_low_alerts", records |-> records,
                         toner_threshold |-> toner_threshold,
                         fuser_threshold |-> fuser_threshold,
                         alerts |-> build_low_alerts(records, toner_threshold,
                                                     fuser_threshold)]
    /\ UNCHANGED <<storevars, clock, appvars>>

NextPure ==
    \/ NormalizeTray
    \/ ParseTailMetrics
    \/ ParseMonitorPage
    \/ BuildLowAlerts

SpecPure == Init /\ [][NextPure]_vars

----------------------------------------------------------------------------
\* Vocabulary of the properties

OpenKeys(d) == KeysOf(OpenTrays(d))
EntryOf(d, key) == OpenTrays(d)[IndexOf(OpenTrays(d), key)]
SinceOf(d, key) == Get(EntryOf(d, key), "since", NoTime)
LastSeenOf(d, key) == Get(EntryOf(d, key), "last_seen", NoTime)

\* The events the step appended.
NewEvents == SubSeq(history', Len(history) + 1, Len(history'))
\* The positions of the events of one key in a list of events.
EventsFor(events, key) ==
    {i \in DOMAIN events : /\ events[i].printer_id = printer_id(key)
                           /\ events[i].tray = tray(key)}
TheEventFor(events, key) == events[CHOOSE i \in EventsFor(events, key) : TRUE]

\* The step is the call reconcile(ret'.current_empties, clock).
IsReconcileStep ==
    /\ ret'.op = "reconcile"
    /\ clock' = clock
    /\ ReconcileCall(ret'.current_empties)
\* The step is the call manual_mark_filled(ret'.tray_key, clock).
IsManualStep ==
    /\ ret'.op = "manual_mark_filled"
    /\ clock' = clock
    /\ ManualCall(ret'.tray_key)

\* C1: closed to open. A reconcile call stores, for every key of the snapshot
\* that was not open, an entry with since = last_seen = scan_time, appends
\* exactly one event for the key, with note "detected by monitor" and
\* empty_since = scan_time, and counts the key in new_empties.
C1_ClosedToOpen ==
    [][IsReconcileStep =>
        LET new == KeysOf(ret'.current_empties) \ OpenKeys(data)
        IN /\ \A key \in new :
                /\ key \in OpenKeys(data')
                /\ SinceOf(data', key) = clock
                /\ LastSeenOf(data', key) = clock
                /\ Cardinality(EventsFor(NewEvents, key)) = 1
                /\ TheEventFor(NewEvents, key).note = "detected by monitor"
                /\ TheEventFor(NewEvents, key).empty_since = clock
                /\ TheEventFor(NewEvents, key).timestamp = clock
           /\ ret'.value.new_empties = Cardinality(new)
      ]_vars

C1_Witness ==
    /\ ret.op = "reconcile"
    /\ ret.value.new_empties = 2
    /\ OpenKeys(data) = KEYS

\* C2: open to open. While a key stays open its since never changes and no
\* event is appended for it; a scan that reports it again sets its last_seen
\* to the scan time, and no other step touches last_seen.
C2_OpenToOpen ==
    [][\A key \in KEYS : (key \in OpenKeys(data) /\ key \in OpenKeys(data')) =>
        /\ SinceOf(data', key) = SinceOf(data, key)
        /\ EventsFor(NewEvents, key) = {}
        /\ LastSeenOf(data', key) =
             IF IsReconcileStep THEN clock ELSE LastSeenOf(data, key)
      ]_vars

C2_Witness ==
    \E key \in OpenKeys(data) :
        /\ SinceOf(data, key) = 1
        /\ LastSeenOf(data, key) = MaxTime
        /\ Cardinality(EventsFor(history, key)) = 1

\* C3: open to closed. A reconcile call appends, for every open key missing
\* from the snapshot, exactly one "filled" event that carries the prior
\* entry's fields (its since as empty_since), last_seen = scan_time and the
\* note "no longer reported empty"; the key leaves the open set and is
\* counted in new_filled.
C3_OpenToClosed ==
    [][IsReconcileStep =>
        LET gone == OpenKeys(data) \ KeysOf(ret'.current_empties)
        IN /\ \A key \in gone :
                /\ key \notin OpenKeys(data')
                /\ Cardinality(EventsFor(NewEvents, key)) = 1
                /\ TheEventFor(NewEvents, key) =
                     [timestamp |-> clock,
                      event_type |-> "filled",
                      printer_id |-> EntryOf(data, key).printer_id,
                      tray |-> EntryOf(data, key).tray,
                      empty_since |-> SinceOf(data, key),
                      last_seen |-> clock,
                      status_message |-> EntryOf(data, key).status_message,
                      note |-> "no longer reported empty"]
           /\ ret'.value.new_filled = Cardinality(gone)
      ]_vars

C3_Witness ==
    /\ ret.op = "reconcile"
    /\ ret.value.new_filled = 1
    /\ \E i \in DOMAIN history :
        /\ history[i].note = "no longer reported empty"
        /\ history[i].empty_since < history[i].last_seen

\* C4: reconciliation idempotence. A reconcile call that follows a reconcile
\* call with the same snapshot keys appends no event, returns 0 and 0, and
\* leaves the since of every open key unchanged.
C4_Idempotent ==
    [][( /\ ret.op = "reconcile"
         /\ IsReconcileStep
         /\ KeysOf(ret'.current_empties) = KeysOf(ret.current_empties) ) =>
        /\ NewEvents = <<>>
        /\ ret'.value = [new_empties |-> 0, new_filled |-> 0]
        /\ OpenKeys(data') = OpenKeys(data)
        /\ \A key \in OpenKeys(data) : SinceOf(data', key) = SinceOf(data, key)
      ]_vars

C4_Witness ==
    /\ ret.op = "reconcile"
    /\ ret.value = [new_empties |-> 0, new_filled |-> 0]
    /\ OpenKeys(data) = KEYS
    /\ \A key \in KEYS : SinceOf(data, key) < LastSeenOf(data, key)

\* C5: manual resolution of an open key removes exactly that key, appends
\* exactly one "filled" event with note "manually marked filled" and
\* last_seen = now, persists the document and returns success.
C5_ManualOpen ==
    [][(IsManualStep /\ ret'.tray_key \in OpenKeys(data)) =>
        /\ OpenKeys(data') = OpenKeys(data) \ {ret'.tray_key}
        /\ \A key \in OpenKeys(data') : EntryOf(data', key) = EntryOf(data, key)
        /\ Len(NewEvents) = 1
        /\ EventsFor(NewEvents, ret'.tray_key) = {1}
        /\ NewEvents[1].event_type = "filled"
        /\ NewEvents[1].note = "manually marked filled"
        /\ NewEvents[1].last_seen = clock
        /\ fs'[state_path] = JsonFile(data')
        /\ ret'.updated = TRUE
      ]_vars

C5_Witness ==
    /\ ret.op = "manual_mark_filled"
    /\ ret.updated = TRUE
    /\ Cardinality(OpenKeys(data)) = 1
    /\ fs[state_path] = JsonFile(data)

\* C6: stale manual resolution. manual_mark_filled on a key that is not open
\* returns failure, appends no event and leaves the document, in memory and
\* on disk, unchanged.
C6_ManualStale ==
    [][(IsManualStep /\ ret'.tray_key \notin OpenKeys(data)) =>
        /\ ret'.updated = FALSE
        /\ NewEvents = <<>>
        /\ data' = data
        /\ fs' = fs
      ]_vars

C6_Witness ==
    /\ ret.op = "manual_mark_filled"
    /\ ret.updated = FALSE
    /\ \E i \in EventsFor(history, ret.tray_key) :
          history[i].note = "manually marked filled"
    /\ OpenKeys(data) # {}

\* C9: event log cap. The log never holds more than MAX_EVENTS events, and it
\* is always the newest events ever appended, in the order they were appended.
C9_EventCap ==
    LET events == Get(data, "events", <<>>)
        n == IF Len(history) > MAX_EVENTS THEN MAX_EVENTS ELSE Len(history)
    IN /\ Len(events) <= MAX_EVENTS
       /\ events = SubSeq(history, Len(history) - n + 1, Len(history))
       /\ fs[state_path] \in {Missing, JsonFile(data)}

C9_Witness ==
    /\ Len(history) > MAX_EVENTS
    /\ Len(Get(data, "events", <<>>)) = MAX_EVENTS

\* The in-memory state reads as the empty default document: what
\* get_open_empties, get_events and get_last_scan return.
ReadsAsDefault(d) ==
    /\ IsDict(d)
    /\ Get(d, "open_empty_trays", <<>>) = <<>>
    /\ Get(d, "events", <<>>) = <<>>
    /\ Get(d, "last_scan_at", NoTime) = NoTime

\* The files the claim calls missing or unparsable.
Unparsable ==
    {Missing, Truncated, NotUtf8, Unreadable,
     JsonFile(JsonArray), JsonFile(EmptyObject)}

\* C7: bootstrap never fails. Constructing the store over a missing or
\* unparsable file does not raise and leaves the empty default document, and
\* no later reconcile or manual_mark_filled call raises.
C7_BootNeverFails ==
    (boot.state # "pending" /\ boot.file \in Unparsable) =>
        /\ boot.state = "ok"
        /\ (ret.op = "init" => ReadsAsDefault(data))
        /\ ~ret.raised

\* C8: atomic persistence. Wherever save() is interrupted, state_path holds
\* the last fully written version (the document of the last completed
\* replace), never a truncated one; the replace puts the new version there
\* whole.
C8_AtomicPersistence ==
    /\ fs[state_path] = last_written
    /\ fs[state_path].kind \in {"missing", "json"}

\* The process was killed while tmp_path was half written, after an earlier
\* save had completed.
C8_Witness ==
    /\ ret.op = "init"
    /\ Get(ret, "interrupted", "") = "write"
    /\ fs[tmp_path] = Truncated
    /\ fs[state_path].kind = "json"
    /\ data = fs[state_path].value

\* C10: at most one scan in flight. Never do two _refresh_worker threads run
\* together, and while refresh_in_progress is set no step, whatever asks for
\* a scan, starts a worker.
C10_OneScanInFlight ==
    /\ [](Cardinality(Running) <= 1)
    /\ [][refresh_in_progress => Running' \subseteq Running]_vars

\* Refresh Now was pressed while a worker was running and did nothing.
C10_Witness ==
    /\ req = "suppressed"
    /\ refresh_in_progress
    /\ Cardinality(Running) = 1

\* C11: a failed scan is reported to the foreground and the flag is cleared.
\* A worker that ends before its hand-off (transport failure, no record
\* parsed, any other exception) has queued _refresh_error; a queued
\* _refresh_error is eventually run, and running it clears
\* refresh_in_progress, so the flag does not stay set after a failure.
ErrorPending ==
    \E i \in DOMAIN callbacks : callbacks[i].fn = "_refresh_error"

FailedIn(w) ==
    /\ workers[w].pc \in {"fetch", "reconcile"}
    /\ workers'[w].pc = "none"

WorkerInside == \E w \in DOMAIN workers : workers[w].pc = "readback"
ForegroundInside == foreground.pc = "locked"

C12_Serialized ==
    /\ [](~(WorkerInside /\ ForegroundInside))
    /\ []((WorkerInside \/ ForegroundInside) => state_lock # "free")
    /\ [][(WorkerInside \/ ForegroundInside) =>
            (data' = data /\ fs' = fs)]_vars
    /\ [](\A w \in DOMAIN workers :
            workers[w].pc = "post" =>
                workers[w].open_empties = workers[w].mutated)
    /\ [][(ForegroundInside /\ foreground.updated /\ ~ForegroundInside') =>
            open_empties' = foreground.mutated]_vars

\* A manual resolution took the lock after the worker released it and before
\* the worker's snapshot was applied: the foreground is inside its block and
\* the worker's snapshot is already older than the document.
C12_Witness ==
    /\ foreground.pc = "locked"
    /\ foreground.updated
    /\ \E w \in DOMAIN workers :
         /\ workers[w].pc = "post"
         /\ workers[w].open_empties # OpenTrays(data)

\* C13: a scan that fails by transport failure or by empty extraction changes
\* nothing. Such a scan never reaches reconcile, and neither the step in
\* which its worker fails nor the _refresh_error that reports it changes the
\* document in memory, the file, or the trays the app displays.
FetchFailed ==
    \E w \in DOMAIN workers :
        workers[w].pc = "fetch" /\ workers'[w].pc = "none"

FetchErrorRun ==
    /\ callbacks # <<>>
    /\ Head(callbacks).fn = "_refresh_error"
    /\ Head(callbacks).message \in
         {"Network error", "No printer rows were parsed"}
    /\ callbacks' = Tail(callbacks)

C13_FailedScanNoMutation ==
    /\ [](\A w \in DOMAIN workers :
            workers[w].pc = "reconcile" => workers[w].records = "some")
    /\ [][(FetchFailed \/ FetchErrorRun) =>
            /\ data' = data
            /\ fs' = fs
            /\ open_empties' = open_empties]_vars

\* An empty extraction is about to be reported while trays are open in the
\* store and on display.
C13_Witness ==
    /\ callbacks # <<>>
    /\ Head(callbacks).fn = "_refresh_error"
    /\ Head(callbacks).message = "No printer rows were parsed"
    /\ OpenKeys(data) # {}
    /\ open_empties # <<>>
    /\ fs[state_path] = JsonFile(data)

\* The events of a list are typed: every event_type is detection or filled,
\* an event has the detection type exactly when a closed-to-open transition
\* appended it (note "detected by monitor"), and "filled" exactly when an
\* open-to-closed transition or a manual resolution did.
Typed(events, detection) ==
    \A i \in DOMAIN events :
        /\ events[i].event_type \in {detection, "filled"}
        /\ events[i].event_type = detection
             <=> events[i].note = "detected by monitor"
        /\ events[i].event_type = "filled"
             <=> events[i].note \in {"no longer reported empty",
                                     "manually marked filled"}

LogsTyped(detection) ==
    /\ Typed(history, detection)
    /\ Typed(Get(data, "events", <<>>), detection)
    /\ fs[state_path].kind = "json" =>
         Typed(Get(fs[state_path].value, "events", <<>>), detection)

\* C14 as stated: every persisted event has event_type in {detected, filled},
\* detected for a closed-to-open transition and filled for the others.
C14_Original == LogsTyped("detected")

\* C14, amended: every persisted event has event_type in {empty, filled};
\* the event of a closed-to-open transition has event_type "empty", the
\* events of open-to-closed and of manual resolution have "filled".
C14_EventTypes == LogsTyped("empty")

\* The file holds a detection event and the event of a manual resolution.
C14_Witness ==
    /\ fs[state_path].kind = "json"
    /\ LET events == Get(fs[state_path].value, "events", <<>>)
       IN /\ \E i \in DOMAIN events : events[i].event_type = "empty"
          /\ \E i \in DOMAIN events :
               /\ events[i].event_type = "filled"
               /\ events[i].note = "manually marked filled"

\* C15: the persisted-document invariant. For every open key, the events
\* ever appended hold a detection of the key that no filled event of the key
\* follows: the key was reported empty by a scan and has not been resolved
\* since, and its entry dates from that detection. In the log itself, if no
\* event was cut by the cap the detection is there, and whatever the cap left
\* of the key's events does not end with a filled event.
LastOf(events, key) ==
    events[CHOOSE i \in EventsFor(events, key) :
               \A j \in EventsFor(events, key) : j <= i]

DetectedAndOpen(events, key) ==
    /\ EventsFor(events, key) # {}
    /\ LastOf(events, key).event_type = "empty"

C15_DocumentInvariant ==
    \A key \in OpenKeys(data) :
        LET events == Get(data, "events", <<>>)
        IN /\ DetectedAndOpen(history, key)
           /\ LastOf(history, key).timestamp = SinceOf(data, key)
           /\ Len(history) <= MAX_EVENTS => DetectedAndOpen(events, key)
           /\ EventsFor(events, key) # {} => DetectedAndOpen(events, key)
           /\ fs[state_path] = JsonFile(data)

\* A key is open and the cap has cut its detection from the log.
C15_Witness ==
    \E key \in OpenKeys(data) :
        /\ EventsFor(Get(data, "events", <<>>), key) = {}
        /\ Len(history) > MAX_EVENTS

\* C16: tray normalization, as stated: "tray07" gives "Tray 7", "TRAY-B" gives
\* "Tray B", a purely numeric token gives "Tray N" without its leading zeros,
\* and a token with no letter, digit or hyphen gives "Unknown Tray".
C16_TrayNormalization ==
    evaluated.fn = "normalize_tray" =>
        LET value == evaluated.value
            label == evaluated.label
        IN /\ value = <<"t", "r", "a", "y", "0", "7">> =>
                label = <<"T", "r", "a", "y", " ", "7">>
           /\ value = <<"T", "R", "A", "Y", "-", "B">> =>
                label = <<"T", "r", "a", "y", " ", "B">>
           /\ (value # <<>> /\ \A i \in DOMAIN value : value[i] \in DIGITS) =>
                /\ SubSeq(label, 1, 5) = <<"T", "r", "a", "y", " ">>
                /\ int(SubSeq(label, 6, Len(label))) = int(value)
                /\ (Len(label) > 6 => label[6] # "0")
           /\ (\A i \in DOMAIN value :
                  value[i] \notin DIGITS \cup UPPER \cup LOWER \cup {"-"}) =>
                label = UnknownTray

\* C17: tail metric extraction. With at least ten number tokens in the tail
\* and the last ten all in 0..100, the levels are those ten, in order, under
\* toner_k, toner_c, toner_m, toner_y, drum_k, drum_c, drum_m, drum_y, belt,
\* fuser; with fewer than ten tokens, or one of the last ten above 100, the
\* levels are empty.
NumberTokens(row_tail) ==
    LET at == {i \in DOMAIN row_tail :
                  /\ Len(row_tail[i]) \in 1..3
                  /\ \A j \in DOMAIN row_tail[i] : row_tail[i][j] \in DIGITS}
    IN [k \in 1..Cardinality(at) |->
          int(row_tail[CHOOSE i \in at :
                          Cardinality({j \in at : j <= i}) = k])]

C17_TailMetrics ==
    evaluated.fn = "parse_tail_metrics" =>
        LET tokens == NumberTokens(evaluated.row_tail)
            levels == evaluated.levels
            n == Len(tokens)
        IN IF n >= 10 /\ \A i \in (n - 9)..n : tokens[i] \in 0..100
           THEN /\ DOMAIN levels = {LEVEL_KEYS[i] : i \in 1..10}
                /\ \A i \in 1..10 : levels[LEVEL_KEYS[i]] = tokens[n - 10 + i]
           ELSE DOMAIN levels = {}

\* Eleven tokens, the first of them out of range: the last ten are assigned.
C17_Witness ==
    /\ evaluated.fn = "parse_tail_metrics"
    /\ Len(NumberTokens(evaluated.row_tail)) = 11
    /\ NumberTokens(evaluated.row_tail)[1] > 100
    /\ DOMAIN evaluated.levels # {}
    /\ evaluated.levels["toner_k"] = 2

\* The alerts of a call for a printer and an item.
AlertsFor(id, item) ==
    {i \in DOMAIN evaluated.alerts :
        /\ evaluated.alerts[i].printer_id = id
        /\ evaluated.alerts[i].item = item}

\* The colour levels of the record are all present and all 0.
ZeroedColours(record) ==
    \A key \in {"toner_c", "toner_m", "toner_y"} :
        key \in DOMAIN record.levels /\ record.levels[key] = 0

\* The record puts a reading of the key at or below the threshold.
LowIn(record, key) ==
    /\ key \in DOMAIN record.levels
    /\ record.levels[key] <= evaluated.toner_threshold

\* The example of the claim: one record, toner_k = 5, zeroed colours, no
\* fuser level, no keyword, threshold 15.
MonoExample ==
    /\ evaluated.fn = "build_low_alerts"
    /\ evaluated.toner_threshold = 15
    /\ evaluated.records =
         <<RecordOf("10001", <<>>,
                    [key \in {"toner_k", "toner_c", "toner_m", "toner_y"} |->
                        IF key = "toner_k" THEN 5 ELSE 0])>>

\* C18: a record whose three colour levels are all present and all 0 brings
\* no Cyan, Magenta or Yellow toner alert whatever the threshold, and a
\* printer has a colour alert exactly when one of its other records puts
\* that colour at or below the threshold; Black Toner is alerted whenever
\* toner_k is at or below the threshold; the example yields exactly one
\* alert, "Black Toner".
C18_MonoLike ==
    evaluated.fn = "build_low_alerts" =>
        /\ \A i \in DOMAIN evaluated.records :
             LET record == evaluated.records[i]
                 id == record.printer_id
             IN /\ \A channel \in {"c", "m", "y"} :
                      AlertsFor(id, TonerItem(channel)) # {} <=>
                        \E j \in DOMAIN evaluated.records :
                           LET other == evaluated.records[j]
                           IN /\ other.printer_id = id
                              /\ ~ZeroedColours(other)
                              /\ LowIn(other, IF channel = "c" THEN "toner_c"
                                              ELSE IF channel = "m"
                                              THEN "toner_m" ELSE "toner_y")
                /\ LowIn(record, "toner_k") =>
                      AlertsFor(id, "Black Toner") # {}
        /\ MonoExample =>
             /\ Len(evaluated.alerts) = 1
             /\ evaluated.alerts[1].item = "Black Toner"

\* The example of C18 was built.
C18_Witness ==
    /\ MonoExample
    /\ Len(evaluated.alerts) = 1

\* "level" for a threshold alert, the reason for a keyword alert.
Category(alert) ==
    IF alert.level = <<"reported">> THEN alert.source ELSE <<"level">>

\* A record at or below the fuser threshold whose status says "low fuser".
FuserTwice(record) ==
    /\ "fuser" \in DOMAIN record.levels
    /\ record.levels["fuser"] <= evaluated.fuser_threshold
    /\ \E i \in 1..(Len(record.status_message) - 1) :
          /\ record.status_message[i] = "low"
          /\ record.status_message[i + 1] = "fuser"

\* C19: no two alerts of a call share (printer_id, item, category); a record
\* at or below the fuser threshold that says "low fuser" yields exactly two
\* Fuser alerts, one of each category, however often the record is fed.
C19_Deduplicated ==
    evaluated.fn = "build_low_alerts" =>
        /\ \A i, j \in DOMAIN evaluated.alerts :
             (/\ evaluated.alerts[i].printer_id = evaluated.alerts[j].printer_id
              /\ evaluated.alerts[i].item = evaluated.alerts[j].item
              /\ Category(evaluated.alerts[i]) = Category(evaluated.alerts[j]))
             => i = j
        /\ \A r \in DOMAIN evaluated.records :
             FuserTwice(evaluated.records[r]) =>
                /\ Cardinality(AlertsFor(evaluated.records[r].printer_id,
                                         "Fuser")) = 2
                /\ \E i, j \in AlertsFor(evaluated.records[r].printer_id,
                                         "Fuser") :
                      /\ evaluated.alerts[i].level = <<"reported">>
                      /\ evaluated.alerts[j].level # <<"reported">>

\* The same record, low on fuser by both signs, was fed twice.
C19_Witness ==
    /\ evaluated.fn = "build_low_alerts"
    /\ Len(evaluated.records) = 2
    /\ evaluated.records[1] = evaluated.records[2]
    /\ FuserTwice(evaluated.records[1])
    /\ Cardinality(AlertsFor("10001", "Fuser")) = 2

\* C20: every level of every record parse_monitor_page returns is an integer
\* in 0..100, from the tail numbers or from a "Fuser: NN%" / "Belt: NN%" line.
C20_LevelsInRange ==
    evaluated.fn = "parse_monitor_page" =>
        \A i \in DOMAIN evaluated.records :
            \A key \in DOMAIN evaluated.records[i].levels :
                evaluated.records[i].levels[key] \in 0..100

\* C26: a successful manual_mark_filled changes open_empty_trays and events
\* and nothing else of the document: last_scan_at stays the time of the last
\* scan reconciliation.
C26_ManualFrame ==
    [][(IsManualStep /\ ret'.updated) =>
        /\ DOMAIN data' = DOMAIN data
        /\ \A field \in DOMAIN data \ {"open_empty_trays", "events"} :
              data'[field] = data[field]
      ]_vars

\* The events of the key in the list alternate, beginning with a detection.
Alternates(events, key) ==
    \A i \in EventsFor(events, key) :
        LET earlier == {j \in EventsFor(events, key) : j < i}
        IN /\ events[i].event_type \in {"empty", "filled"}
           /\ IF earlier = {}
              THEN events[i].event_type = "empty"
              ELSE LET last == CHOOSE j \in earlier : \A k \in earlier : k <= j
                   IN events[i].event_type # events[last].event_type

\* C22: whatever scans and manual resolutions were made from the empty
\* document, the events of each tray key alternate in the log (detection,
\* filled, detection, ...) beginning with a detection, and the key is open
\* exactly when its latest event is a detection. The log is the events ever
\* appended, which is the document's list as long as the cap cut nothing.
C22_Alternation ==
    /\ \A key \in KEYS :
         /\ Alternates(history, key)
         /\ key \in OpenKeys(data) <=> DetectedAndOpen(history, key)
    /\ Len(history) <= MAX_EVENTS => Get(data, "events", <<>>) = history

\* One key was detected, resolved by hand and detected again.
C22_Witness ==
    \E key \in KEYS :
        /\ EventsFor(history, key) = {1, 2, 3}
        /\ history[2].note = "manually marked filled"
        /\ key \in OpenKeys(data)

\* C25: when the write of save() failed in reconcile or manual_mark_filled,
\* the document in memory is the last one persisted: the one in the state
\* file, or the default document when no file was ever written.
C25_FailureKeepsInStep ==
    (ret.op \in {"reconcile", "manual_mark_filled"} /\ ret.raised) =>
        IF fs[state_path] = Missing
        THEN data = DefaultDoc
        ELSE fs[state_path] = JsonFile(data)

\* C23: whenever refresh_in_progress is set, a _refresh_worker thread is
\* running or its completion callback is waiting on the foreground thread.
C23_FlagHasWorker ==
    refresh_in_progress => (Running # {} \/ callbacks # <<>>)

\* C24: whenever no scan is in flight, no completion callback is pending and
\* no handler is under way, the displayed trays (self.open_empties) have
\* exactly the keys of the store's open_empty_trays. States whose document a
\* failed write left unpersisted are set aside.
C24_ViewConsistent ==
    (/\ ~refresh_in_progress
     /\ Running = {}
     /\ callbacks = <<>>
     /\ foreground = Idle
     /\ fs[state_path] = JsonFile(data))
    => KeysOf(open_empties) = OpenKeys(data)

\* The step starts a scan that the periodic tick asked for.
TickStartsScan ==
    \E w \in DOMAIN workers :
        /\ workers[w].pc = "none"
        /\ workers'[w].pc = "fetch"
        /\ workers'[w].by = "tick"

\* The step runs the completion callback of a scan, _apply_refresh or
\* _refresh_error.
ScanEnds ==
    /\ callbacks # <<>>
    /\ Head(callbacks).fn \in {"_apply_refresh", "_refresh_error"}
    /\ callbacks' = Tail(callbacks)
    /\ ~refresh_in_progress'

\* C21: the periodic tick starts a scan only when auto-refresh is on, no scan
\* is in flight and the clock is at or past the next-due time, or no due
\* time was ever set; the next-due time changes only when a scan completes
\* or fails, to now plus the interval then configured; a change of the
\* interval leaves the due time, the in-flight flag, the workers and the
\* pending callbacks as they are.
C21_AutoRescanTiming ==
    [][/\ TickStartsScan =>
            /\ auto_refresh_var
            /\ ~refresh_in_progress
            /\ \/ next_auto_refresh_epoch = NoTime
               \/ clock >= next_auto_refresh_epoch
       /\ next_auto_refresh_epoch' # next_auto_refresh_epoch =>
            /\ ScanEnds
            /\ next_auto_refresh_epoch' - clock = refresh_interval_var
       /\ refresh_interval_var' # refresh_interval_var =>
            UNCHANGED <<next_auto_refresh_epoch, refresh_in_progress,
                        workers, callbacks>>
      ]_vars

\* The tick has started a scan at a due time computed before the interval
\* was changed.
C21_Witness ==
    /\ \E w \in DOMAIN workers :
          workers[w].pc = "fetch" /\ workers[w].by = "tick"
    /\ next_auto_refresh_epoch # NoTime
    /\ clock >= next_auto_refresh_epoch
    /\ refresh_interval_var # DEFAULT_INTERVAL_MINUTES

====
